---- MODULE Spec2Model ----
(***************************************************************************)
(* Model of finql's holiday calendar (src/calendar.rs) and of the          *)
(* in-memory record store (src/memory_handler/transaction_handler.rs).     *)
(*                                                                         *)
(* Dates are chrono NaiveDate values, modelled by their day number since   *)
(* 0001-01-01 (= 1) in the proleptic Gregorian calendar.                   *)
(***************************************************************************)
EXTENDS Integers, Sequences, FiniteSets, TLC

VARIABLES
    \* ---- Calendar::calc_calendar and the traversals ----
    rules,      \* holiday_rules: the rule list handed to calc_calendar
    start,      \* first year of the range
    end,        \* last year of the range
    idx,        \* position of `for rule in holiday_rules`
    yr,         \* position of the inner `for year in first..last + 1`
    holidays,   \* BTreeSet<NaiveDate> under construction / of the Calendar
    weekdays,   \* Vec<Weekday> under construction / of the Calendar
    pc,         \* "build" | "ready" | "panic" | "next" | "prev"
    date,       \* the `mut date` cursor of next_bday / prev_bday
    arg,        \* the date next_bday / prev_bday was called with
    ret,        \* what the last finished traversal returned
    log,        \* history: one record per holidays.insert, in program order
    \* ---- InMemoryDB ----
    assets,                 \* BTreeMap<usize, Asset>
    transactions,           \* BTreeMap<usize, Transaction>
    next_asset_id,
    next_transaction_id,
    res,        \* the last store operation and its Result
    issued,     \* history: ids returned by insert, per entity kind
    deleted     \* history: ids successfully deleted, per entity kind

calVars == <<rules, start, end, idx, yr, holidays, weekdays, pc, date, arg, ret, log>>
dbVars == <<assets, transactions, next_asset_id, next_transaction_id, res, issued, deleted>>
vars == <<calVars, dbVars>>

-----------------------------------------------------------------------------
(* Bounds of the model *)

MinYear == 2016
MaxYear == 2017
MaxRules == 2
MaxQuery == 4
MaxScan == 12
MaxId == 3

-----------------------------------------------------------------------------
(* Option<i32> *)

None == {}
Some(x) == {x}
Unwrap(o) == CHOOSE x \in o : TRUE

Max(a, b) == IF a >= b THEN a ELSE b
Min(a, b) == IF a <= b THEN a ELSE b

-----------------------------------------------------------------------------
(* chrono: NaiveDate, Weekday *)

Weekday == <<"Mon", "Tue", "Wed", "Thu", "Fri", "Sat", "Sun">>
WeekdaySet == {Weekday[i] : i \in 1..7}

is_leap_year(year) ==
    year % 4 = 0 /\ (year % 100 # 0 \/ year % 400 = 0)

DaysInMonth(year, month) ==
    IF month = 2 THEN (IF is_leap_year(year) THEN 29 ELSE 28)
    ELSE IF month \in {4, 6, 9, 11} THEN 30 ELSE 31

\* NaiveDate::from_ymd_opt(year, month, day).is_some()
ValidYmd(year, month, day) ==
    month \in 1..12 /\ day >= 1 /\ day <= DaysInMonth(year, month)

RECURSIVE DaysBeforeMonth(_, _)
DaysBeforeMonth(year, month) ==
    IF month <= 1 THEN 0
    ELSE DaysBeforeMonth(year, month - 1) + DaysInMonth(year, month - 1)

DaysBeforeYear(year) ==
    365 * (year - 1) + ((year - 1) \div 4) - ((year - 1) \div 100) + ((year - 1) \div 400)

\* NaiveDate::from_ymd(year, month, day), for a valid (year, month, day)
from_ymd(year, month, day) ==
    DaysBeforeYear(year) + DaysBeforeMonth(year, month) + day

succ(d) == d + 1
pred(d) == d - 1

\* Datelike::weekday
weekday(d) == Weekday[((d - 1) % 7) + 1]

\* The years the model's dates can fall in.
YearWindow == (MinYear - 1)..(MaxYear + 2)

\* Datelike::year
year_of(d) ==
    CHOOSE y \in YearWindow : from_ymd(y, 1, 1) <= d /\ d < from_ymd(y + 1, 1, 1)

\* Datelike::month
month_of(d) ==
    CHOOSE m \in 1..12 :
        /\ from_ymd(year_of(d), m, 1) <= d
        /\ d <= from_ymd(year_of(d), m, DaysInMonth(year_of(d), m))

\* Datelike::day
day_of(d) == d - from_ymd(year_of(d), month_of(d), 1) + 1

-----------------------------------------------------------------------------
(* computus::gregorian(year): Easter Sunday as (month, day) *)

EasterHL(year) ==
    LET a == year % 19
        b == year \div 100
        c == year % 100
        d == b \div 4
        e == b % 4
        f == (b + 8) \div 25
        g == (b - f + 1) \div 3
        h == (19 * a + b - d - g + 15) % 30
        i == c \div 4
        k == c % 4
        l == (32 + 2 * e + 2 * i - h - k) % 7
        m == (a + 11 * h + 22 * l) \div 451
    IN  h + l - 7 * m + 114

easter(year) ==
    from_ymd(year, EasterHL(year) \div 31, (EasterHL(year) % 31) + 1)

-----------------------------------------------------------------------------
(* Date utilities *)

\* last_day_of_month
last_day_of_month(year, month) ==
    day_of(pred(IF ValidYmd(year, month + 1, 1)
                THEN from_ymd(year, month + 1, 1)
                ELSE from_ymd(year + 1, 1, 1)))

-----------------------------------------------------------------------------
(* Holiday rules (enum Holiday) *)

WeekDayRule(w) == [kind |-> "WeekDay", weekday |-> w]
YearlyDay(m, d, f, l) ==
    [kind |-> "YearlyDay", month |-> m, day |-> d, first |-> f, last |-> l]
MovableYearlyDay(m, d, f, l) ==
    [kind |-> "MovableYearlyDay", month |-> m, day |-> d, first |-> f, last |-> l]
SingularDay(d) == [kind |-> "SingularDay", date |-> d]
EasterOffset(o) == [kind |-> "EasterOffset", offset |-> o]
MonthWeekday(m, w, n, f, l) ==
    [kind |-> "MonthWeekday", month |-> m, weekday |-> w, nth |-> n,
     first |-> f, last |-> l]

NthWeekday == {"First", "Second", "Third", "Fourth", "Last"}

\* The rules whose arm runs a `for year in ...` loop.
LoopKinds == {"YearlyDay", "MovableYearlyDay", "EasterOffset", "MonthWeekday"}

-----------------------------------------------------------------------------
(* Inputs of the model *)

YearBounds == {None, Some(MinYear), Some(MaxYear)}

\* Rules that are combined with each other in lists of up to MaxRules rules.
CoreRules ==
    { YearlyDay(11, 3, None, None),
      YearlyDay(2, 29, None, None),
      MovableYearlyDay(11, 3, None, None),
      MovableYearlyDay(11, 4, None, None),
      MovableYearlyDay(12, 31, None, None),
      MovableYearlyDay(11, 31, Some(MaxYear), None),
      SingularDay(from_ymd(MaxYear, 1, 2)),
      EasterOffset(-2) }

\* Rules that are evaluated alone.
SingleRules ==
    CoreRules
    \cup { YearlyDay(md[1], md[2], f, l) :
             md \in {<<11, 6>>, <<2, 29>>}, f \in YearBounds, l \in YearBounds }
    \cup { MonthWeekday(m, w, n, None, None) :
             m \in {2, 11, 12}, w \in WeekdaySet, n \in NthWeekday }
    \cup { MonthWeekday(11, "Sat", "First", None, Some(MinYear)),
           MonthWeekday(11, "Sun", "Last", Some(MaxYear), None),
           SingularDay(from_ymd(MaxYear, 11, 6)) }

RECURSIVE SeqsUpTo(_, _)
SeqsUpTo(S, n) ==
    IF n = 0 THEN {<<>>}
    ELSE LET shorter == SeqsUpTo(S, n - 1)
         IN  shorter \cup {Append(q, x) : q \in shorter, x \in S}

AllSeven == [i \in 1..7 |-> WeekDayRule(Weekday[i])]

WeekendLists ==
    { <<>>,
      <<WeekDayRule("Sat"), WeekDayRule("Sun")>>,
      <<WeekDayRule("Fri"), WeekDayRule("Sat")>>,
      AllSeven }

RuleLists ==
    { q \o <<WeekDayRule("Sat"), WeekDayRule("Sun")>> : q \in SeqsUpTo(CoreRules, MaxRules) }
    \cup { <<r>> \o w : r \in SingleRules, w \in WeekendLists }

\* The dates next_bday and prev_bday are called with.
QueryDates ==
    { from_ymd(MaxYear, 11, 2) + k : k \in 0..MaxQuery }
    \cup { from_ymd(MinYear, 12, 30) + k : k \in 0..MaxQuery }

-----------------------------------------------------------------------------
(* Calendar::calc_calendar *)

\* Variant: `first` is taken as given, not clamped to start.
calc_first_and_last_unclamped(s, e, first, last) ==
    << IF first # None THEN Unwrap(first) ELSE s,
       IF last # None THEN Min(e, Unwrap(last)) ELSE e >>

\* Variant: min in place of max for `first`.
calc_first_and_last_min(s, e, first, last) ==
    << IF first # None THEN Min(s, Unwrap(first)) ELSE s,
       IF last # None THEN Min(e, Unwrap(last)) ELSE e >>

calc_first_and_last(s, e, first, last) ==
    << IF first # None THEN Max(s, Unwrap(first)) ELSE s,
       IF last # None THEN Min(e, Unwrap(last)) ELSE e >>

\* The year range of a rule's `for year in ...` loop.
LoopRange(r) ==
    IF r.kind = "EasterOffset" THEN <<start, end>>
    ELSE calc_first_and_last(start, end, r.first, r.last)

\* Variant: `||` in place of `&&`.
SingularInRangeOr(d) == year_of(d) >= start \/ year_of(d) <= end

\* `year >= start && year <= end` of the SingularDay arm
SingularInRange(d) == year_of(d) >= start /\ year_of(d) <= end

\* `while holidays.get(&date).is_some() { date = date.succ(); }`
RECURSIVE Probe(_, _)
Probe(h, d) == IF d \in h THEN Probe(h, succ(d)) ELSE d

\* The date the MovableYearlyDay arm inserts for a (valid) nominal date.
MovableDate(h, nominal) ==
    LET shifted == CASE weekday(nominal) = "Sat" -> succ(succ(nominal))
                     [] weekday(nominal) = "Sun" -> succ(nominal)
                     [] OTHER -> nominal
    IN  Probe(h, shifted)

\* Variant: the anchors of Second..Fourth are one day early.
AnchorDayEarly(year, month, nth) ==
    CASE nth = "First" -> 1
      [] nth = "Second" -> 7
      [] nth = "Third" -> 14
      [] nth = "Fourth" -> 21
      [] nth = "Last" -> last_day_of_month(year, month)

\* The anchor day of the MonthWeekday arm.
AnchorDay(year, month, nth) ==
    CASE nth = "First" -> 1
      [] nth = "Second" -> 8
      [] nth = "Third" -> 15
      [] nth = "Fourth" -> 22
      [] nth = "Last" -> last_day_of_month(year, month)

\* `while date.weekday() != *weekday { date = pred or succ }`
RECURSIVE ScanWeekday(_, _, _)
ScanWeekday(d, w, nth) ==
    IF weekday(d) = w THEN d
    ELSE ScanWeekday(IF nth = "Last" THEN pred(d) ELSE succ(d), w, nth)

\* Entering the arm of rule i: the inner loop starts at its first year.
Enter(i) ==
    /\ idx' = i
    /\ yr' = IF i <= Len(rules) /\ rules[i].kind \in LoopKinds
             THEN LoopRange(rules[i])[1] ELSE 0

Building(kind) ==
    /\ pc = "build"
    /\ idx <= Len(rules)
    /\ rules[idx].kind = kind

\* holidays.insert(d), recorded in the history
Insert(d, nominal, year) ==
    /\ holidays' = holidays \cup {d}
    /\ log' = Append(log, [idx |-> idx, kind |-> rules[idx].kind, year |-> year,
                           nominal |-> nominal, date |-> d, before |-> holidays])

\* A panic of from_ymd: the build ends without a Calendar.
Panic ==
    /\ pc' = "panic"
    /\ UNCHANGED <<idx, yr, holidays, weekdays, log>>

Untouched == UNCHANGED <<rules, start, end, date, arg, ret, dbVars>>

ArmSingularDay ==
    /\ Building("SingularDay")
    /\ IF SingularInRange(rules[idx].date)
       THEN Insert(rules[idx].date, rules[idx].date, year_of(rules[idx].date))
       ELSE UNCHANGED <<holidays, log>>
    /\ Enter(idx + 1)
    /\ UNCHANGED <<weekdays, pc>>
    /\ Untouched

ArmWeekDay ==
    /\ Building("WeekDay")
    /\ weekdays' = Append(weekdays, rules[idx].weekday)
    /\ Enter(idx + 1)
    /\ UNCHANGED <<holidays, log, pc>>
    /\ Untouched

\* Variant: a year whose date does not exist is skipped (from_ymd_opt).
ArmYearlyDaySkipsInvalid ==
    /\ Building("YearlyDay")
    /\ yr <= LoopRange(rules[idx])[2]
    /\ IF ValidYmd(yr, rules[idx].month, rules[idx].day)
       THEN Insert(from_ymd(yr, rules[idx].month, rules[idx].day),
                   from_ymd(yr, rules[idx].month, rules[idx].day), yr)
       ELSE UNCHANGED <<holidays, log>>
    /\ yr' = yr + 1
    /\ UNCHANGED <<idx, weekdays, pc>>
    /\ Untouched

\* One iteration of the YearlyDay arm's loop.
ArmYearlyDay ==
    /\ Building("YearlyDay")
    /\ yr <= LoopRange(rules[idx])[2]
    /\ IF ValidYmd(yr, rules[idx].month, rules[idx].day)
       THEN /\ Insert(from_ymd(yr, rules[idx].month, rules[idx].day),
                      from_ymd(yr, rules[idx].month, rules[idx].day), yr)
            /\ yr' = yr + 1
            /\ UNCHANGED <<idx, weekdays, pc>>
       ELSE Panic
    /\ Untouched

\* One iteration of the MovableYearlyDay arm's loop.
ArmMovableYearlyDay ==
    /\ Building("MovableYearlyDay")
    /\ yr <= LoopRange(rules[idx])[2]
    /\ IF ValidYmd(yr, rules[idx].month, rules[idx].day)
       THEN /\ Insert(MovableDate(holidays, from_ymd(yr, rules[idx].month, rules[idx].day)),
                      from_ymd(yr, rules[idx].month, rules[idx].day), yr)
            /\ yr' = yr + 1
            /\ UNCHANGED <<idx, weekdays, pc>>
       ELSE Panic
    /\ Untouched

\* One iteration of the EasterOffset arm's loop.
ArmEasterOffset ==
    /\ Building("EasterOffset")
    /\ yr <= LoopRange(rules[idx])[2]
    /\ Insert(easter(yr) + rules[idx].offset, easter(yr), yr)
    /\ yr' = yr + 1
    /\ UNCHANGED <<idx, weekdays, pc>>
    /\ Untouched

\* One iteration of the MonthWeekday arm's loop.
ArmMonthWeekday ==
    /\ Building("MonthWeekday")
    /\ yr <= LoopRange(rules[idx])[2]
    /\ LET r == rules[idx]
           day == AnchorDay(yr, r.month, r.nth)
       IN  IF ValidYmd(yr, r.month, day)
           THEN /\ Insert(ScanWeekday(from_ymd(yr, r.month, day), r.weekday, r.nth),
                          from_ymd(yr, r.month, day), yr)
                /\ yr' = yr + 1
                /\ UNCHANGED <<idx, weekdays, pc>>
           ELSE Panic
    /\ Untouched

\* The inner loop of a rule is exhausted: on to the next rule.
EndOfYears ==
    /\ pc = "build"
    /\ idx <= Len(rules)
    /\ rules[idx].kind \in LoopKinds
    /\ yr > LoopRange(rules[idx])[2]
    /\ Enter(idx + 1)
    /\ UNCHANGED <<holidays, weekdays, log, pc>>
    /\ Untouched

\* `Calendar { holidays, weekdays }` is returned.
ReturnCalendar ==
    /\ pc = "build"
    /\ idx > Len(rules)
    /\ pc' = "ready"
    /\ UNCHANGED <<idx, yr, holidays, weekdays, log>>
    /\ Untouched

-----------------------------------------------------------------------------
(* Calendar queries and traversals *)

is_weekend(day) == \E i \in 1..Len(weekdays) : weekday(day) = weekdays[i]

is_holiday(d) == d \in holidays

\* Variant: `||` in place of `&&`.
is_business_day_or(d) == ~is_weekend(d) \/ ~is_holiday(d)

\* Variant: the negation of is_holiday is missing.
is_business_day_holiday(d) == ~is_weekend(d) /\ is_holiday(d)

is_business_day(d) == ~is_weekend(d) /\ ~is_holiday(d)

NoRet == [op |-> "none", arg |-> 0, value |-> 0]

Traversal == UNCHANGED <<rules, start, end, idx, yr, holidays, weekdays, log, dbVars>>

\* A call of is_weekend, is_holiday or is_business_day on the Calendar; no
\* traversal is running, so its locals hold nothing.
Answer(op, d, v) ==
    /\ pc = "ready"
    /\ ret' = [op |-> op, arg |-> d, value |-> v]
    /\ date' = 0
    /\ arg' = 0
    /\ UNCHANGED pc
    /\ Traversal

QueryIsWeekend == \E d \in QueryDates : Answer("is_weekend", d, is_weekend(d))

QueryIsHoliday == \E d \in QueryDates : Answer("is_holiday", d, is_holiday(d))

QueryIsBusinessDay == \E d \in QueryDates : Answer("is_business_day", d, is_business_day(d))

\* Variant: the scan starts at the date itself.
NextBdayCallNoSucc ==
    /\ pc = "ready"
    /\ \E d \in QueryDates :
         /\ arg' = d
         /\ date' = d
    /\ pc' = "next"
    /\ ret' = NoRet
    /\ Traversal

\* next_bday: `date = date.succ();`
NextBdayCall ==
    /\ pc = "ready"
    /\ \E d \in QueryDates :
         /\ arg' = d
         /\ date' = succ(d)
    /\ pc' = "next"
    /\ ret' = NoRet
    /\ Traversal

\* next_bday: one iteration of `while !self.is_business_day(date)`
NextBdayLoop ==
    /\ pc = "next"
    /\ ~is_business_day(date)
    /\ date - arg < MaxScan
    /\ date' = succ(date)
    /\ UNCHANGED <<pc, arg, ret>>
    /\ Traversal

NextBdayReturn ==
    /\ pc = "next"
    /\ is_business_day(date)
    /\ ret' = [op |-> "next_bday", arg |-> arg, value |-> date]
    /\ pc' = "ready"
    /\ UNCHANGED <<date, arg>>
    /\ Traversal

\* prev_bday: `date = date.pred();`
PrevBdayCall ==
    /\ pc = "ready"
    /\ \E d \in QueryDates :
         /\ arg' = d
         /\ date' = pred(d)
    /\ pc' = "prev"
    /\ ret' = NoRet
    /\ Traversal

PrevBdayLoop ==
    /\ pc = "prev"
    /\ ~is_business_day(date)
    /\ arg - date < MaxScan
    /\ date' = pred(date)
    /\ UNCHANGED <<pc, arg, ret>>
    /\ Traversal

PrevBdayReturn ==
    /\ pc = "prev"
    /\ is_business_day(date)
    /\ ret' = [op |-> "prev_bday", arg |-> arg, value |-> date]
    /\ pc' = "ready"
    /\ UNCHANGED <<date, arg>>
    /\ Traversal

-----------------------------------------------------------------------------
(* The calendar's specification *)

DbIdle ==
    /\ assets = <<>>
    /\ transactions = <<>>
    /\ next_asset_id = 0
    /\ next_transaction_id = 0
    /\ res = [op |-> "none"]
    /\ issued = [k \in {"asset", "transaction"} |-> <<>>]
    /\ deleted = [k \in {"asset", "transaction"} |-> {}]

Init ==
    /\ rules \in RuleLists
    /\ start \in MinYear..MaxYear
    /\ end \in MinYear..MaxYear
    /\ idx = 1
    /\ yr = IF 1 <= Len(rules) /\ rules[1].kind \in LoopKinds
            THEN LoopRange(rules[1])[1] ELSE 0
    /\ holidays = {}
    /\ weekdays = <<>>
    /\ pc = "build"
    /\ date = 0
    /\ arg = 0
    /\ ret = NoRet
    /\ log = <<>>
    /\ DbIdle

Next ==
    \/ ArmSingularDay
    \/ ArmWeekDay
    \/ ArmYearlyDay
    \/ ArmMovableYearlyDay
    \/ ArmEasterOffset
    \/ ArmMonthWeekday
    \/ EndOfYears
    \/ ReturnCalendar
    \/ NextBdayCall
    \/ NextBdayLoop
    \/ NextBdayReturn
    \/ PrevBdayCall
    \/ PrevBdayLoop
    \/ PrevBdayReturn
    \/ QueryIsWeekend
    \/ QueryIsHoliday
    \/ QueryIsBusinessDay

Spec == Init /\ [][Next]_vars

\* The scans of next_bday and prev_bday are fair: a running loop keeps running.
LiveSpec ==
    /\ Init
    /\ [][Next]_vars
    /\ WF_vars(NextBdayLoop)
    /\ WF_vars(NextBdayReturn)
    /\ WF_vars(PrevBdayLoop)
    /\ WF_vars(PrevBdayReturn)

-----------------------------------------------------------------------------
(* InMemoryDB: impl DataHandler *)

DataValues == {"a", "b"}
Ids == 0..MaxId

\* An Asset or a Transaction: its `id: Option<usize>` and the rest of it.
Records == [id : {None} \cup {Some(i) : i \in Ids}, data : DataValues]

\* BTreeMap::insert and BTreeMap::remove
Put(m, k, v) == [x \in (DOMAIN m) \cup {k} |-> IF x = k THEN v ELSE m[x]]
Remove(m, k) == [x \in (DOMAIN m) \ {k} |-> m[x]]

\* InMemoryDB::get_by_id
get_by_id(id, m) ==
    IF id \in DOMAIN m THEN [ok |-> TRUE, value |-> m[id]]
    ELSE [ok |-> FALSE, err |-> "NotFound"]

CalIdle ==
    /\ rules = <<>>
    /\ start = MinYear
    /\ end = MinYear
    /\ idx = 1
    /\ yr = 0
    /\ holidays = {}
    /\ weekdays = <<>>
    /\ pc = "store"
    /\ date = 0
    /\ arg = 0
    /\ ret = NoRet
    /\ log = <<>>

Ok(op, id) == [op |-> op, ok |-> TRUE, id |-> id]
Err(op, e) == [op |-> op, ok |-> FALSE, err |-> e]

insert_asset(asset) ==
    /\ next_transaction_id < MaxId
    /\ assets' = Put(assets, next_asset_id, [asset EXCEPT !.id = Some(next_asset_id)])
    /\ next_transaction_id' = next_transaction_id + 1
    /\ res' = Ok("insert_asset", next_asset_id)
    /\ issued' = [issued EXCEPT !.asset = Append(@, next_asset_id)]
    /\ UNCHANGED <<next_asset_id, transactions, deleted, calVars>>

get_asset_by_id(id) ==
    /\ res' = [op |-> "get_asset_by_id", id |-> id] @@ get_by_id(id, assets)
    /\ UNCHANGED <<assets, transactions, next_asset_id, next_transaction_id,
                   issued, deleted, calVars>>

update_asset(asset) ==
    /\ IF asset.id = None
       THEN /\ res' = Err("update_asset", "UpdateFailed")
            /\ UNCHANGED assets
       ELSE IF Unwrap(asset.id) \notin DOMAIN assets
       THEN /\ res' = Err("update_asset", "NotFound")
            /\ UNCHANGED assets
       ELSE /\ assets' = Put(assets, Unwrap(asset.id), asset)
            /\ res' = Ok("update_asset", Unwrap(asset.id))
    /\ UNCHANGED <<transactions, next_asset_id, next_transaction_id,
                   issued, deleted, calVars>>

delete_asset(id) ==
    /\ IF id \notin DOMAIN assets
       THEN /\ res' = Err("delete_asset", "NotFound")
            /\ UNCHANGED <<assets, deleted>>
       ELSE /\ assets' = Remove(assets, id)
            /\ res' = Ok("delete_asset", id)
            /\ deleted' = [deleted EXCEPT !.asset = @ \cup {id}]
    /\ UNCHANGED <<transactions, next_asset_id, next_transaction_id, issued, calVars>>

insert_transaction(transaction) ==
    /\ next_transaction_id < MaxId
    /\ transactions' = Put(transactions, next_transaction_id,
                           [transaction EXCEPT !.id = Some(next_transaction_id)])
    /\ next_transaction_id' = next_transaction_id + 1
    /\ res' = Ok("insert_transaction", next_transaction_id)
    /\ issued' = [issued EXCEPT !.transaction = Append(@, next_transaction_id)]
    /\ UNCHANGED <<next_asset_id, assets, deleted, calVars>>

get_transaction_by_id(id) ==
    /\ res' = [op |-> "get_transaction_by_id", id |-> id] @@ get_by_id(id, transactions)
    /\ UNCHANGED <<assets, transactions, next_asset_id, next_transaction_id,
                   issued, deleted, calVars>>

update_transaction(transaction) ==
    /\ IF transaction.id = None
       THEN /\ res' = Err("update_transaction", "UpdateFailed")
            /\ UNCHANGED transactions
       ELSE IF Unwrap(transaction.id) \notin DOMAIN transactions
       THEN /\ res' = Err("update_transaction", "NotFound")
            /\ UNCHANGED transactions
       ELSE /\ transactions' = Put(transactions, Unwrap(transaction.id), transaction)
            /\ res' = Ok("update_transaction", Unwrap(transaction.id))
    /\ UNCHANGED <<assets, next_asset_id, next_transaction_id,
                   issued, deleted, calVars>>

delete_transaction(id) ==
    /\ IF id \notin DOMAIN transactions
       THEN /\ res' = Err("delete_transaction", "NotFound")
            /\ UNCHANGED <<transactions, deleted>>
       ELSE /\ transactions' = Remove(transactions, id)
            /\ res' = Ok("delete_transaction", id)
            /\ deleted' = [deleted EXCEPT !.transaction = @ \cup {id}]
    /\ UNCHANGED <<assets, next_asset_id, next_transaction_id, issued, calVars>>

InitDB == CalIdle /\ DbIdle

NextDB ==
    \/ \E a \in Records : insert_asset(a)
    \/ \E i \in Ids : get_asset_by_id(i)
    \/ \E a \in Records : update_asset(a)
    \/ \E i \in Ids : delete_asset(i)
    \/ \E t \in Records : insert_transaction(t)
    \/ \E i \in Ids : get_transaction_by_id(i)
    \/ \E t \in Records : update_transaction(t)
    \/ \E i \in Ids : delete_transaction(i)

SpecDB == InitDB /\ [][NextDB]_vars

-----------------------------------------------------------------------------
(* Vocabulary of the properties, stated without the code's operators *)

WeekendSet == {weekdays[i] : i \in 1..Len(weekdays)}

\* A business day: neither a configured weekend day nor a holiday.
BusinessDay(d) == weekday(d) \notin WeekendSet /\ d \notin holidays

Returned == pc \in {"ready", "next", "prev"}

\* The clamped year range [max(start, first), min(end, last)] of a rule.
ClampLo(r) == IF r.first = None THEN start
              ELSE (IF Unwrap(r.first) > start THEN Unwrap(r.first) ELSE start)
ClampHi(r) == IF r.last = None THEN end
              ELSE (IF Unwrap(r.last) < end THEN Unwrap(r.last) ELSE end)

LogIndex == 1..Len(log)

\* The rules other than the first are WeekDay rules.
OnlyHolidayRuleIsFirst ==
    /\ Len(rules) >= 1
    /\ \A i \in 2..Len(rules) : rules[i].kind = "WeekDay"

OutOfRangeSingular(i) ==
    /\ rules[i].kind = "SingularDay"
    /\ (year_of(rules[i].date) < start \/ year_of(rules[i].date) > end)

-----------------------------------------------------------------------------
(* C1 *)

\* C1: next_bday(d) returns r > d that is a business day with no business day
\* strictly between d and r; prev_bday(d) returns r < d that is a business day
\* with no business day strictly between r and d.
C1_BdayTraversal ==
    /\ ret.op = "next_bday" =>
         /\ ret.value > ret.arg
         /\ BusinessDay(ret.value)
         /\ \A x \in (ret.arg + 1)..(ret.value - 1) : ~BusinessDay(x)
    /\ ret.op = "prev_bday" =>
         /\ ret.value < ret.arg
         /\ BusinessDay(ret.value)
         /\ \A x \in (ret.value + 1)..(ret.arg - 1) : ~BusinessDay(x)

\* next_bday has returned after stepping over a holiday that is no weekend day.
C1_Witness ==
    /\ ret.op = "next_bday"
    /\ \E x \in (ret.arg + 1)..(ret.value - 1) :
         x \in holidays /\ weekday(x) \notin WeekendSet

-----------------------------------------------------------------------------
(* C2 *)

\* C2: every successful insert returns an identifier different from every
\* identifier insert returned before for that entity kind.
C2_FreshIds ==
    \A k \in {"asset", "transaction"} :
        \A i, j \in 1..Len(issued[k]) : i < j => issued[k][i] # issued[k][j]

-----------------------------------------------------------------------------
(* C3 *)

FreeSlot(x, h) == weekday(x) \notin {"Sat", "Sun"} /\ x \notin h

\* The first date on or after n that is no Saturday, no Sunday and not in h.
FirstFree(n, h) ==
    CHOOSE x \in n..(n + MaxScan) :
        FreeSlot(x, h) /\ \A z \in n..(x - 1) : ~FreeSlot(z, h)

\* C3: the date inserted for a MovableYearlyDay rule and a year is the first
\* date on or after the nominal date that is neither a Saturday nor a Sunday
\* and was not yet in the holiday set.
C3_MovableFirstFree ==
    \A k \in LogIndex :
        log[k].kind = "MovableYearlyDay" =>
            log[k].date = FirstFree(log[k].nominal, log[k].before)

-----------------------------------------------------------------------------
(* C4 *)

\* C4, as claimed: a SingularDay(d) of the list with year(d) outside
\* [start, end] is no holiday of the returned calendar.
C4_OutOfRangeSingularAbsent ==
    pc = "ready" =>
        \A i \in 1..Len(rules) : OutOfRangeSingular(i) => ~is_holiday(rules[i].date)

\* C4, amended: a SingularDay rule inserts its date only when the date's year
\* is in [start, end]; every holiday was inserted by some rule, so the date of
\* an out-of-range SingularDay is a holiday only if a rule of another kind
\* inserted it.
C4_SingularInsertsOnlyInRange ==
    /\ holidays = {log[k].date : k \in LogIndex}
    /\ \A k \in LogIndex :
         log[k].kind = "SingularDay" =>
             /\ log[k].date = rules[log[k].idx].date
             /\ year_of(log[k].date) >= start
             /\ year_of(log[k].date) <= end
    /\ \A i \in 1..Len(rules) :
         (OutOfRangeSingular(i) /\ rules[i].date \in holidays) =>
             \E k \in LogIndex :
                 log[k].date = rules[i].date /\ log[k].kind # "SingularDay"

\* A calendar was returned whose holiday set holds the date of an out-of-range
\* SingularDay rule of its list.
C4_Witness ==
    /\ pc = "ready"
    /\ \E i \in 1..Len(rules) : OutOfRangeSingular(i) /\ rules[i].date \in holidays

-----------------------------------------------------------------------------
(* C5 *)

\* C5, as claimed: with start > end the build fails, no Calendar is returned.
C5_StartAfterEndFails == start > end => ~Returned

\* C5, amended: with start > end the build never fails; it returns a Calendar
\* with an empty holiday set and the weekend days of the WeekDay rules.
C5_StartAfterEndEmptyCalendar ==
    start > end =>
        /\ pc # "panic"
        /\ holidays = {}
        /\ Returned =>
             WeekendSet = {rules[i].weekday :
                             i \in {j \in 1..Len(rules) : rules[j].kind = "WeekDay"}}

\* A calendar was returned for start > end from a list with a bounded yearly rule.
C5_Witness ==
    /\ pc = "ready"
    /\ start > end
    /\ \E i \in 1..Len(rules) :
         rules[i].kind = "YearlyDay" /\ rules[i].first # None

-----------------------------------------------------------------------------
(* C6 *)

\* C6: in a calendar built from a single YearlyDay{month, day, first, last}
\* rule, (y, month, day) is a holiday exactly for the years y with
\* max(start, first) <= y <= min(end, last).
C6_YearlyDayClamped ==
    (pc = "ready" /\ OnlyHolidayRuleIsFirst /\ rules[1].kind = "YearlyDay") =>
        LET r == rules[1] IN
        /\ \A y \in YearWindow :
             (ValidYmd(y, r.month, r.day) /\ from_ymd(y, r.month, r.day) \in holidays)
                 <=> (ClampLo(r) <= y /\ y <= ClampHi(r))
        /\ holidays = {from_ymd(y, r.month, r.day) : y \in ClampLo(r)..ClampHi(r)}

\* A single YearlyDay rule whose first year cuts the range: holiday in the
\* last year only.
C6_Witness ==
    /\ pc = "ready"
    /\ OnlyHolidayRuleIsFirst
    /\ rules[1].kind = "YearlyDay"
    /\ rules[1].first = Some(MaxYear)
    /\ rules[1].last = None
    /\ start = MinYear
    /\ end = MaxYear
    /\ Cardinality(holidays) = 1

-----------------------------------------------------------------------------
(* C7 *)

NthDays(nth) ==
    CASE nth = "First" -> 1..7
      [] nth = "Second" -> 8..14
      [] nth = "Third" -> 15..21
      [] nth = "Fourth" -> 22..28

\* C7: the date inserted for a MonthWeekday rule and a year lies in the rule's
\* month of that year, on the rule's weekday, and is the nth (day of month in
\* 1..7, 8..14, 15..21, 22..28) or the last occurrence of the weekday in the
\* month; one date is inserted for every year of the clamped range.
C7_MonthWeekday ==
    /\ \A k \in LogIndex :
         log[k].kind = "MonthWeekday" =>
             LET r == rules[log[k].idx]
                 d == log[k].date
             IN  /\ year_of(d) = log[k].year
                 /\ month_of(d) = r.month
                 /\ weekday(d) = r.weekday
                 /\ IF r.nth = "Last"
                    THEN day_of(d) + 7 > DaysInMonth(log[k].year, r.month)
                    ELSE day_of(d) \in NthDays(r.nth)
    /\ Returned =>
         \A i \in 1..Len(rules) :
             rules[i].kind = "MonthWeekday" =>
                 \A y \in ClampLo(rules[i])..ClampHi(rules[i]) :
                     \E k \in LogIndex : log[k].idx = i /\ log[k].year = y

\* The last Monday of February of a leap year, the 29th, was inserted.
C7_Witness ==
    \E k \in LogIndex :
        /\ log[k].kind = "MonthWeekday"
        /\ rules[log[k].idx].nth = "Last"
        /\ rules[log[k].idx].month = 2
        /\ day_of(log[k].date) = 29

-----------------------------------------------------------------------------
(* C8 *)

WeekendCoversAll == WeekendSet = WeekdaySet

\* C8: when the weekend list does not hold all seven weekdays, a running
\* next_bday or prev_bday eventually returns.
C8_TraversalTerminates ==
    ((pc \in {"next", "prev"}) /\ ~WeekendCoversAll) ~> (pc = "ready" /\ ret.op # "none")

\* A scan that has already passed three non-business days.
C8_Witness ==
    /\ pc = "next"
    /\ ~WeekendCoversAll
    /\ ~BusinessDay(date)
    /\ date - arg >= 3

-----------------------------------------------------------------------------
(* C9 *)

Store(k) == IF k = "asset" THEN assets ELSE transactions

\* C9: update without an id returns UpdateFailed, update or delete of an id
\* that is no key returns NotFound, and an id that was successfully deleted is
\* not retrievable by a later get_by_id.
C9_DeletedStaysGone ==
    /\ (res.op \in {"update_asset", "update_transaction", "delete_asset",
                    "delete_transaction"} /\ ~res.ok) =>
           res.err \in {"UpdateFailed", "NotFound"}
    /\ \A k \in {"asset", "transaction"} :
           \A id \in deleted[k] : ~get_by_id(id, Store(k)).ok

\* The error outcomes of update and delete leave the store and both id
\* counters as they were, and report the error the code names.
C9_ErrorsChangeNothing ==
    [][ \A a \in Records, i \in Ids :
          /\ (update_asset(a) /\ (a.id = None \/ Unwrap(a.id) \notin DOMAIN assets)) =>
                /\ res'.err = (IF a.id = None THEN "UpdateFailed" ELSE "NotFound")
                /\ UNCHANGED <<assets, transactions, next_asset_id, next_transaction_id>>
          /\ (update_transaction(a)
                /\ (a.id = None \/ Unwrap(a.id) \notin DOMAIN transactions)) =>
                /\ res'.err = (IF a.id = None THEN "UpdateFailed" ELSE "NotFound")
                /\ UNCHANGED <<assets, transactions, next_asset_id, next_transaction_id>>
          /\ (delete_asset(i) /\ i \notin DOMAIN assets) =>
                /\ res'.err = "NotFound"
                /\ UNCHANGED <<assets, transactions, next_asset_id, next_transaction_id>>
          /\ (delete_transaction(i) /\ i \notin DOMAIN transactions) =>
                /\ res'.err = "NotFound"
                /\ UNCHANGED <<assets, transactions, next_asset_id, next_transaction_id>>
          /\ (delete_asset(i) /\ i \in DOMAIN assets) => ~get_by_id(i, assets').ok
          /\ (delete_transaction(i) /\ i \in DOMAIN transactions) =>
                ~get_by_id(i, transactions').ok
      ]_vars

-----------------------------------------------------------------------------
(* C10 *)

\* A YearlyDay or MovableYearlyDay rule of the list needs a date that does not
\* exist, for a year of its clamped range.
NeedsInvalidDate ==
    \E i \in 1..Len(rules) :
        /\ rules[i].kind \in {"YearlyDay", "MovableYearlyDay"}
        /\ \E y \in ClampLo(rules[i])..ClampHi(rules[i]) :
               ~ValidYmd(y, rules[i].month, rules[i].day)

\* C10: when a YearlyDay or MovableYearlyDay rule needs an invalid date for a
\* year of its clamped range, calc_calendar returns no Calendar.
C10_InvalidDateFailsBuild == NeedsInvalidDate => ~Returned

\* The build failed on Feb 29 of a non-leap year after inserting an earlier year.
C10_Witness ==
    /\ pc = "panic"
    /\ NeedsInvalidDate
    /\ holidays # {}

-----------------------------------------------------------------------------
(* C11 *)

\* The weekdays the WeekDay rules of the list supply.
RuleWeekdays ==
    {rules[i].weekday : i \in {j \in 1..Len(rules) : rules[j].kind = "WeekDay"}}

\* C11: on a constructed calendar is_weekend(d) holds exactly when d's weekday
\* was supplied by a WeekDay rule, is_holiday(d) exactly when d is in the
\* holiday set, and is_business_day(d) equals (not is_weekend(d)) and
\* (not is_holiday(d)); a WeekDay rule adds no date to the holiday set.
C11_BusinessDayQueries ==
    /\ ret.op = "is_weekend" => (ret.value <=> weekday(ret.arg) \in RuleWeekdays)
    /\ ret.op = "is_holiday" => (ret.value <=> ret.arg \in holidays)
    /\ ret.op = "is_business_day" =>
         (ret.value <=> (weekday(ret.arg) \notin RuleWeekdays /\ ret.arg \notin holidays))
    /\ Returned =>
         \A d \in QueryDates :
             /\ is_weekend(d) <=> weekday(d) \in RuleWeekdays
             /\ is_business_day(d) <=> (~is_weekend(d) /\ ~is_holiday(d))
    /\ holidays = {log[k].date : k \in LogIndex}
    /\ \A k \in LogIndex : log[k].kind # "WeekDay"

\* is_business_day answered false for a date that is a weekend day and a holiday.
C11_Witness ==
    /\ ret.op = "is_business_day"
    /\ ret.value = FALSE
    /\ weekday(ret.arg) \in RuleWeekdays
    /\ ret.arg \in holidays

\* is_business_day answered true on a calendar with weekend days and holidays.
C11_WitnessTrue ==
    /\ ret.op = "is_business_day"
    /\ ret.value = TRUE
    /\ RuleWeekdays # {}
    /\ holidays # {}

====
